---- MODULE Spec2Model ----
(***************************************************************************)
(* DentAI Pro: the batch controller (main_window.py), the per-image        *)
(* prediction worker (model_handler.py), the image card and the diagnosis  *)
(* tables (ui_components.py) and the PDF report generator                  *)
(* (report_generator.py), as one state machine.                            *)
(*                                                                         *)
(* Threads: the GUI thread runs the Qt event loop; every PredictionWorker  *)
(* is a QThread whose signals reach the GUI thread as queued events, in    *)
(* the order they were emitted.  A modal dialog (QMessageBox, QFileDialog) *)
(* runs a nested event loop on the GUI thread: queued signals keep being   *)
(* delivered while it is open, input to the main window does not.          *)
(*                                                                         *)
(* Numbers: a probability is an integer number of thousandths (0..1000).   *)
(* Text: a non-ASCII character of the source is written by its code point  *)
(* ("U2705"), the bullet U+2022 of the management strings as "*".          *)
(***************************************************************************)
EXTENDS Integers, Sequences, FiniteSets, TLC

\* ---------------------------------------------------------------- bounds
\* Workers dispatched over a whole run (all load_images calls together).
MaxWorkers == 2
\* load_images calls that select at least one file.
MaxSubmits == 2

\* ------------------------------------------------- model_handler.py data
class_names ==
  << "Nil control", "condensing osteitis", "diffuse lesion",
     "periapical abcess", "periapical granuloma", "periapical widening",
     "pericoronitis", "radicular cyst" >>

\* PredictionWorker.__init__'s default top_k.
top_k == 3

\* What predict returns from its except branch, and what run emits through
\* finished from its own except branch.
ErrorResult == << <<"Error", 0>> >>

\* The files the user can pick, in the order the file dialog lists them.
Files == << "a.png", "b.png", "c.png" >>

\* softmax(model(image)) of each file, in thousandths: the network is a
\* fixed function of the image in evaluation mode.  a.png has one clear
\* class, b.png another one, c.png is a tie over all classes.
Probabilities ==
  ("a.png" :> <<700, 100, 50, 50, 40, 30, 20, 10>>) @@
  ("b.png" :> <<10, 20, 30, 600, 40, 250, 25, 25>>) @@
  ("c.png" :> <<125, 125, 125, 125, 125, 125, 125, 125>>)

\* ------------------------------------------------- ui_components.py data
FINDINGS_MAP ==
  ("nil control" :> <<<<"U2705", "Normal periapical appearance">>, <<"U1F9B7", "Intact lamina dura">>, <<"U1F4CF", "Normal periodontal ligament space width">>, <<"U1F52C", "Healthy bone trabeculation">>, <<"U2728", "No pathological findings">>, <<"U1F33F", "Normal root morphology">>>>) @@
  ("condensing osteitis" :> <<<<"U1F50D", "Increased bone density around apex">>, <<"U2B55", "Well-defined radioopaque lesion">>, <<"U1F525", "Associated with chronic low-grade inflammation">>, <<"U1F9B4", "Localized sclerotic bone reaction">>, <<"U1F636", "Usually asymptomatic">>, <<"U1F4CD", "Commonly seen in mandibular posterior teeth">>>>) @@
  ("diffuse lesion" :> <<<<"U26A0+UFE0F", "Poorly defined radiolucent area">>, <<"U2194+UFE0F", "Irregular borders">>, <<"U1F4D0", "Variable size and shape">>, <<"U1F9B7", "May involve multiple teeth">>, <<"U1F528", "Possible bone destruction pattern">>, <<"U2753", "Unclear demarcation from healthy bone">>>>) @@
  ("periapical abcess" :> <<<<"U1F3AF", "Well-defined radiolucent area at apex">>, <<"U1F494", "Disrupted lamina dura">>, <<"U1F4CF", "Widened periodontal ligament space">>, <<"U1F9B4", "Evidence of bone destruction">>, <<"U2194+UFE0F", "May show diffuse borders in acute phase">>, <<"U1F480", "Associated with non-vital tooth">>>>) @@
  ("periapical granuloma" :> <<<<"U2B55", "Small round/oval radiolucency at apex">>, <<"U1F4CF", "Well-defined borders">>, <<"U1F4CA", "Size typically < 1cm in diameter">>, <<"U1F494", "Loss of lamina dura">>, <<"U1F480", "Associated with non-vital tooth">>, <<"U1F50D", "Uniform radiolucent appearance">>>>) @@
  ("periapical widening" :> <<<<"U1F4CF", "Increased PDL space width">>, <<"U26A1", "Early stage of periapical pathology">>, <<"U2194+UFE0F", "Continuous with periodontal ligament">>, <<"U1F525", "May indicate pulpal inflammation">>, <<"U1F4CA", "Usually uniform widening">>, <<"U1F9B7", "Intact lamina dura">>>>) @@
  ("pericoronitis" :> <<<<"U1F9B7", "Partially erupted tooth (usually third molar)">>, <<"U1F52C", "Soft tissue opacification over crown">>, <<"U26A0+UFE0F", "Possible bone loss around crown">>, <<"U1F4CF", "Widened follicular space">>, <<"U1F4CD", "May show impaction pattern">>, <<"U2705", "Adjacent bone appears normal">>>>) @@
  ("radicular cyst" :> <<<<"U2B55", "Large well-defined radiolucency">>, <<"U1F4CF", "Usually > 1cm in diameter">>, <<"U1F532", "Corticated border">>, <<"U2B55", "Round or oval shape">>, <<"U2197+UFE0F", "May cause root displacement">>, <<"U1F480", "Associated with non-vital tooth">>>>)

RECOMMENDATIONS_MAP ==
  ("nil control" :> <<<<"U1F4C5", "Regular dental check-ups every 6 months">>, <<"U1F9B7", "Maintain good oral hygiene">>, <<"U1F4F8", "Routine radiographic monitoring">>, <<"U1F4DA", "Patient education on preventive care">>>>) @@
  ("condensing osteitis" :> <<<<"U26A1", "Pulp vitality testing required">>, <<"U1F9B7", "Evaluate need for endodontic treatment">>, <<"U1F50D", "Regular monitoring of bone density">>, <<"U1F4CA", "Assessment of adjacent teeth">>, <<"U1F4C5", "Follow-up in 3 months">>>>) @@
  ("diffuse lesion" :> <<<<"U1F50D", "Comprehensive clinical examination needed">>, <<"U1F4F8", "Consider CBCT imaging">>, <<"U1F52C", "Biopsy may be necessary">>, <<"U1F465", "Specialist consultation recommended">>, <<"U1F4C5", "Close monitoring required">>>>) @@
  ("periapical abcess" :> <<<<"U26A1", "Immediate endodontic intervention required">>, <<"U1F48A", "Consider antibiotic prescription">>, <<"U1F528", "Possible incision and drainage">>, <<"U1F9B7", "Root canal treatment needed">>, <<"U1F4C5", "Short-term follow-up essential">>>>) @@
  ("periapical granuloma" :> <<<<"U1F9B7", "Root canal treatment indicated">>, <<"U1F50D", "Regular radiographic monitoring">>, <<"U1F4C5", "Follow-up every 3-6 months">>, <<"U1F4CA", "Assessment of healing progress">>, <<"U1F465", "Endodontist consultation if needed">>>>) @@
  ("periapical widening" :> <<<<"U26A1", "Pulp vitality testing essential">>, <<"U1F50D", "Identify cause of inflammation">>, <<"U1F9B7", "Consider occlusal adjustment">>, <<"U1F4C5", "Regular monitoring needed">>, <<"U1F4CA", "Track changes over time">>>>) @@
  ("pericoronitis" :> <<<<"U1F9FC", "Local irrigation and debridement">>, <<"U1F48A", "Antibiotics if systemically involved">>, <<"U1F489", "Pain management required">>, <<"U2702+UFE0F", "Consider surgical extraction">>, <<"U1F4C5", "Short-term follow-up needed">>>>) @@
  ("radicular cyst" :> <<<<"U1F9B7", "Root canal treatment required">>, <<"U2702+UFE0F", "Surgical enucleation may be needed">>, <<"U1F52C", "Histopathological examination">>, <<"U1F4F8", "Regular radiographic monitoring">>, <<"U1F465", "Oral surgeon consultation recommended">>>>)

MANAGEMENT_MAP ==
  ("nil control" :> ("Immediate Action" :> <<"* Document baseline radiographic appearance", "* Record current dental status", "* Check oral hygiene status">> @@
      "Long-term Plan" :> <<"* Regular dental check-ups", "* Preventive care measures", "* Patient education">>)) @@
  ("condensing osteitis" :> ("Immediate Action" :> <<"* Pulp vitality testing", "* Pain assessment", "* Evaluate need for endodontic treatment">> @@
      "Long-term Plan" :> <<"* Monitor bone density changes", "* Regular radiographic assessment", "* Address primary inflammation source">>)) @@
  ("diffuse lesion" :> ("Immediate Action" :> <<"* Comprehensive examination", "* Additional imaging (CBCT)", "* Consider biopsy">> @@
      "Long-term Plan" :> <<"* Regular monitoring", "* Specialist referral if needed", "* Treatment based on biopsy results">>)) @@
  ("periapical abcess" :> ("Immediate Action" :> <<"* Emergency drainage if needed", "* Antibiotic prescription", "* Pain management">> @@
      "Long-term Plan" :> <<"* Complete root canal treatment", "* Regular follow-up", "* Monitor healing progress">>)) @@
  ("periapical granuloma" :> ("Immediate Action" :> <<"* Start root canal treatment", "* Pain management if needed", "* Assess tooth restorability">> @@
      "Long-term Plan" :> <<"* Complete endodontic therapy", "* Regular radiographic assessment", "* Monitor healing">>)) @@
  ("periapical widening" :> ("Immediate Action" :> <<"* Pulp vitality testing", "* Identify inflammation cause", "* Occlusal analysis">> @@
      "Long-term Plan" :> <<"* Monitor PDL width changes", "* Regular follow-up", "* Address contributing factors">>)) @@
  ("pericoronitis" :> ("Immediate Action" :> <<"* Local debridement", "* Prescribe antibiotics if needed", "* Pain management">> @@
      "Long-term Plan" :> <<"* Evaluate for extraction", "* Improve oral hygiene", "* Regular monitoring">>)) @@
  ("radicular cyst" :> ("Immediate Action" :> <<"* Start root canal treatment", "* Plan surgical intervention", "* Pain management if needed">> @@
      "Long-term Plan" :> <<"* Complete endodontic therapy", "* Surgical enucleation", "* Regular radiographic monitoring">>))

\* ------------------------------------------------------ string methods
\* The label kept as the engine spells it.
lower_identity(s) == s

\* str.lower() on the strings that can be a first label of a prediction.
lower(s) ==
  CASE s = "Nil control" -> "nil control"
    [] s = "Error"       -> "error"
    [] OTHER             -> s

\* str.title() on the strings that can be a primary diagnosis.
title(s) ==
  CASE s = "nil control"          -> "Nil Control"
    [] s = "condensing osteitis"  -> "Condensing Osteitis"
    [] s = "diffuse lesion"       -> "Diffuse Lesion"
    [] s = "periapical abcess"    -> "Periapical Abcess"
    [] s = "periapical granuloma" -> "Periapical Granuloma"
    [] s = "periapical widening"  -> "Periapical Widening"
    [] s = "pericoronitis"        -> "Pericoronitis"
    [] s = "radicular cyst"       -> "Radicular Cyst"
    [] s = "error"                -> "Error"
    [] s = "unknown"              -> "Unknown"
    [] OTHER                      -> s

\* dict.get(key, default) of a table written as a function.
DictGet(d, key, default) == IF key \in DOMAIN d THEN d[key] ELSE default

\* f"{a} {b}"
Fmt2(a, b) == a \o " " \o b

\* [f(x) for x in s]
RECURSIVE FmtPairs(_)
FmtPairs(s) ==
  IF s = <<>> THEN <<>>
  ELSE <<Fmt2(Head(s)[1], Head(s)[2])>> \o FmtPairs(Tail(s))

\* ------------------------------------------------ ModelHandler.predict
\* topk taking the smallest entries (largest=False).
Best_smallest(p, taken) ==
  CHOOSE i \in (DOMAIN p) \ taken :
    \A j \in (DOMAIN p) \ taken : p[i] < p[j] \/ (p[j] = p[i] /\ i <= j)

\* torch.topk: the indices of the k largest entries, largest first, the
\* lower index first among equal entries.
Best(p, taken) ==
  CHOOSE i \in (DOMAIN p) \ taken :
    \A j \in (DOMAIN p) \ taken : p[j] < p[i] \/ (p[j] = p[i] /\ i <= j)

RECURSIVE topk(_, _, _)
topk(p, k, taken) ==
  IF k = 0 THEN <<>>
  ELSE LET i == Best(p, taken) IN <<i>> \o topk(p, k - 1, taken \cup {i})

\* predict(image_tensor, top_k): forwardOk is whether the forward pass (and
\* topk) went through; every exception is caught and turned into the
\* ("Error", 0.0) result, none leaves predict.
predict(probabilities, k, forwardOk) ==
  IF forwardOk /\ k <= Len(probabilities)
  THEN LET idx == topk(probabilities, k, {})
       IN  [n \in 1..k |-> <<class_names[idx[n]], probabilities[idx[n]]>>]
  ELSE ErrorResult

\* ----------------------------------------------------------- the state
VARIABLES
  nworkers,   \* PredictionWorker objects constructed so far
  wpc,        \* per worker: "none", "started", "emitting", "finished"
  wpath,      \* per worker: self.image_path
  wtodo,      \* per worker: signals run has still to emit
  wemitted,   \* per worker: how often each signal was emitted (history)
  wresult,    \* per worker: how its run went: "", "ok", "decode" (the
              \* image could not be preprocessed), "forward" (predict
              \* failed) (history)
  workers,    \* DentalXRayAnalyzer.workers
  queue,      \* signals posted to the GUI thread, not yet delivered
  bar,        \* DentalXRayAnalyzer.progress_bar
  grid,       \* DentalXRayAnalyzer.grid_layout: its items, in order
  dialogs,    \* open "Prediction Error" boxes: _handle_prediction_error
              \* calls waiting in QMessageBox.warning
  window,     \* "open", "closing" (closeEvent waits), "closed"
  submits,    \* load_images calls that dispatched workers (history)
  handled,    \* per worker: finished signals of it handled (history)
  report,     \* what export_report did, when it is the step just taken
  model_handler, \* DentalXRayAnalyzer.model_handler: None or the ModelHandler
  call        \* a call of a function on its own: its arguments and result

vars == << nworkers, wpc, wpath, wtodo, wemitted, wresult, workers, queue,
           bar, grid, dialogs, window, submits, handled, report,
           model_handler, call >>

WorkerIds == 1..MaxWorkers

\* The sum of a count per worker.
RECURSIVE SumTo(_, _)
SumTo(f, n) == IF n = 0 THEN 0 ELSE f[n] + SumTo(f, n - 1)
Total(f) == SumTo(f, MaxWorkers)

\* --------------------------------------------------------- QProgressBar
\* QProgressBar(): minimum 0, maximum 100, value -1 (reset state).
NewProgressBar == [minimum |-> 0, maximum |-> 100, value |-> -1, visible |-> TRUE]

setVisible(b, v) == [b EXCEPT !.visible = v]

\* QProgressBar.setValue: a value outside minimum..maximum is ignored
\* (unless minimum = maximum = 0).
setValue(b, v) ==
  IF (v > b.maximum \/ v < b.minimum) /\ (b.maximum # 0 \/ b.minimum # 0)
  THEN b
  ELSE [b EXCEPT !.value = v]

\* QProgressBar.setMaximum(m) = setRange(minimum, m): the value is reset to
\* minimum - 1 when it falls outside the new range.
setMaximum(b, m) ==
  LET mx == IF m < b.minimum THEN b.minimum ELSE m
      v  == IF b.value < b.minimum - 1 \/ b.value > mx
            THEN b.minimum - 1 ELSE b.value
  IN  [b EXCEPT !.maximum = mx, !.value = v]

\* _create_progress_bar
create_progress_bar == setVisible(NewProgressBar, FALSE)

\* ------------------------------------------------------------ QBoxLayout
\* The item addStretch() appends in _create_scroll_area.
Stretch == [kind |-> "stretch"]

\* insertWidget(index, widget), index counted from 0.
insertWidget(layout, index, widget) ==
  SubSeq(layout, 1, index) \o <<widget>> \o SubSeq(layout, index + 1, Len(layout))

\* takeAt(0): the layout without its first item.
takeAt0(layout) == Tail(layout)

\* ------------------------------------------------------------ ImageCard
\* ImageCard built with the path that stands at the card's position in the
\* list of submitted files, not the path the signal carries.
ImageCard_by_position(image_path, predictions, worker, nth) ==
  [kind              |-> "card",
   image_path        |-> Files[nth],
   predictions       |-> predictions,
   primary_diagnosis |-> IF predictions # <<>>
                         THEN lower(predictions[1][1]) ELSE "unknown",
   worker            |-> worker,
   nth               |-> nth]

\* ImageCard.__init__.  Two history fields that the widget does not have:
\* worker, the sender of the signal the card was built for, and nth, the
\* number of that signal among the finished signals handled.
ImageCard(image_path, predictions, worker, nth) ==
  [kind              |-> "card",
   image_path        |-> image_path,
   predictions       |-> predictions,
   primary_diagnosis |-> IF predictions # <<>>
                         THEN lower(predictions[1][1]) ELSE "unknown",
   worker            |-> worker,
   nth               |-> nth]

get_findings_for_diagnosis(card) ==
  DictGet(FINDINGS_MAP, card.primary_diagnosis, <<>>)

get_recommendations(card) ==
  DictGet(RECOMMENDATIONS_MAP, card.primary_diagnosis, <<>>)

\* ----------------------------------------------------- PredictionWorker
FinishedSignal(predictions, image_path) ==
  [sig |-> "finished", predictions |-> predictions,
   image_path |-> image_path, message |-> ""]

ErrorSignal(message) ==
  [sig |-> "error", predictions |-> <<>>, image_path |-> "", message |-> message]

\* preprocess_image with its except branch returning the tensor of the
\* file as last read instead of None.
preprocess_image_never_none(image_path, unreadable) ==
  Probabilities[image_path]

\* preprocess_image: the tensor (here: what the network makes of it), or
\* None when opening or converting the file raises.
None == <<>>
preprocess_image(image_path, unreadable) ==
  IF image_path \in unreadable THEN None ELSE Probabilities[image_path]

\* The except branch of run without its last line: error only.
run_except_error_only(message, image_path) ==
  << ErrorSignal(message) >>

\* The except branch of run: error, then finished with the fallback result.
run_except(message, image_path) ==
  << ErrorSignal(message), FinishedSignal(ErrorResult, image_path) >>

\* run with the fallback emit moved out of the except branch, so that it
\* follows the emit of the try branch as well.
run_fallback_always(image_path, k, unreadable, forwardOk) ==
  LET image_tensor == preprocess_image(image_path, unreadable)
  IN  IF image_tensor = None
      THEN run_except("Failed to preprocess image", image_path)
      ELSE << FinishedSignal(predict(image_tensor, k, forwardOk), image_path),
              FinishedSignal(ErrorResult, image_path) >>

\* run: the signals it emits, in order.
run(image_path, k, unreadable, forwardOk) ==
  LET image_tensor == preprocess_image(image_path, unreadable)
  IN  IF image_tensor = None
      THEN run_except("Failed to preprocess image", image_path)
      ELSE << FinishedSignal(predict(image_tensor, k, forwardOk), image_path) >>

\* ------------------------------------------------- report_generator.py
\* Flowables of the story.
Paragraph(text, style) == << "Paragraph", text, style >>
Spacer(width, height) == << "Spacer", width, height >>
Table(data) == << "Table", data >>
Image(image_path, width) == << "Image", image_path, width >>

\* f"{x:.1f}" of x thousandths.
format_1f(x) ==
  LET tenths == (x + 50) \div 100
  IN  ToString(tenths \div 10) \o "." \o ToString(tenths % 10)

\* prepare_case_data: a dict, written as a function of its keys.  The
\* confidence is in thousandths of a percent.
prepare_case_data(image_card) ==
  [image_path      |-> image_card.image_path,
   diagnosis       |-> title(image_card.primary_diagnosis),
   confidence      |-> image_card.predictions[1][2] * 100,
   findings        |-> FmtPairs(get_findings_for_diagnosis(image_card)),
   recommendations |-> get_recommendations(image_card),
   management      |-> DictGet(MANAGEMENT_MAP, image_card.primary_diagnosis, <<>>)]

\* _add_header
add_header(story) ==
  story \o
  << Table(<< Paragraph("U1F9B7", "ReportTitle"),
              Paragraph("DentAI Pro - Dental X-Ray Analysis Report", "ReportTitle") >>),
     Paragraph("Generated on: <now>", "Normal"),
     Paragraph("Powered by AI for accurate dental pathology detection", "Subtitle") >>

RECURSIVE Bullets(_)
Bullets(items) ==
  IF items = <<>> THEN <<>>
  ELSE << Paragraph("* " \o Head(items), "Normal") >> \o Bullets(Tail(items))

\* _add_section
add_section(story, section_title, items) ==
  story \o << Paragraph(section_title, "SectionTitle") >>
        \o (IF items # <<>> THEN << Table(Bullets(items)) >> ELSE <<>>)
        \o << Spacer(1, 10) >>

\* The image part of _add_case: the image, or the placeholder when opening
\* or converting the file raises.
add_image(story, case, unreadable) ==
  IF case.image_path \notin unreadable
  THEN story \o << Image(case.image_path, 400), Spacer(1, 20) >>
  ELSE story \o << Paragraph("Error: Could not load image", "Normal") >>

\* The management part of _add_case: d[key] of a missing key raises KeyError.
add_management(story, case) ==
  IF "management" \in DOMAIN case
  THEN IF "Immediate Action" \notin DOMAIN case.management
       THEN [raised |-> "KeyError", story |-> story]
       ELSE LET s1 == add_section(story, "Immediate Action Required",
                                  case.management["Immediate Action"])
            IN  IF "Long-term Plan" \notin DOMAIN case.management
                THEN [raised |-> "KeyError", story |-> s1]
                ELSE [raised |-> "",
                      story  |-> add_section(s1, "Long-term Management Plan",
                                             case.management["Long-term Plan"])]
  ELSE [raised |-> "", story |-> story]

\* _add_case: the story it leaves, and the exception it raised ("" if none).
add_case(story, case, case_number, unreadable) ==
  LET s1 == Append(story, Paragraph("Case #" \o ToString(case_number), "CaseNumber"))
      s2 == add_image(s1, case, unreadable)
      s3 == s2 \o << Table(<< Paragraph("Diagnosis: " \o case.diagnosis, "DiagnosisText"),
                              Paragraph("Confidence: " \o format_1f(case.confidence) \o "%",
                                        "Normal") >>),
                     Spacer(1, 20) >>
      s4 == add_section(s3, "Initial Radiographic Assessment", case.findings)
      m  == add_management(s4, case)
  IN  IF m.raised # "" THEN m
      ELSE IF "recommendations" \in DOMAIN case
           THEN [raised |-> "",
                 story  |-> add_section(m.story, "Clinical Recommendations",
                                        FmtPairs(case.recommendations))]
           ELSE m

\* The for loop of generate_report, from case number idx on.
RECURSIVE add_cases(_, _, _, _)
add_cases(story, cases, idx, unreadable) ==
  IF idx > Len(cases) THEN [raised |-> "", story |-> story]
  ELSE LET r == add_case(story, cases[idx], idx, unreadable)
       IN  IF r.raised # "" THEN r
           ELSE add_cases(Append(r.story, Spacer(1, 30)), cases, idx + 1, unreadable)

\* generate_report: doc.build writes the file; buildOk is whether the write
\* went through.  Every exception is logged and raised again.  story is the
\* document written, empty when none was.
generate_report(file_path, cases, unreadable, buildOk) ==
  LET r == add_cases(add_header(<<>>), cases, 1, unreadable)
  IN  IF r.raised # ""
      THEN [raised |-> r.raised, written |-> FALSE, story |-> <<>>]
      ELSE IF buildOk
           THEN [raised |-> "", written |-> TRUE, story |-> r.story]
           ELSE [raised |-> "OSError", written |-> FALSE, story |-> <<>>]

\* ------------------------------------------------- DentalXRayAnalyzer
\* _cleanup_workers dropping every worker of the list.
cleanup_workers_all(ws, pc) == <<>>

\* _cleanup_workers: keep the workers whose thread has not finished.
RECURSIVE cleanup_workers(_, _)
cleanup_workers(ws, pc) ==
  IF ws = <<>> THEN <<>>
  ELSE (IF pc[Head(ws)] = "finished" THEN <<>> ELSE <<Head(ws)>>)
       \o cleanup_workers(Tail(ws), pc)

\* _handle_prediction_result inserting at the front of the layout.
card_index_front(layout) == 0

\* Where _handle_prediction_result inserts a card: before the last item.
card_index(layout) == Len(layout) - 1

\* clear_images with a loop that runs until the layout is empty.
clear_layout_all(layout) == <<>>

\* The while loop of clear_images: take the first item until one is left.
RECURSIVE clear_layout(_)
clear_layout(layout) ==
  IF Len(layout) > 1 THEN clear_layout(takeAt0(layout)) ELSE layout

\* What the file dialog can return: nothing (cancelled), or the first n
\* files of the listing.
Selections == { SubSeq(Files, 1, n) : n \in 0..Len(Files) }

FileSet == { Files[i] : i \in DOMAIN Files }

\* report: the box shown (notice), whether generate_report was called and
\* with which cases, the files that could not be opened then (unreadable),
\* the exception it raised ("" if none), whether a file was written, and
\* the story written.
NoReport ==
  [notice |-> "none", called |-> FALSE, cases |-> <<>>, unreadable |-> {},
   raised |-> "", written |-> FALSE, story |-> <<>>]

\* ------------------------------------------------- ModelHandler.__init__
\* What can be at model_path when the application starts: a checkpoint with
\* the weights of the network under 'model_state_dict', no file, a file
\* torch.load cannot read, a checkpoint without the key, a checkpoint whose
\* tensors do not fit the network (load_state_dict(strict=True) raises).
Checkpoints ==
  { "ok", "missing", "unreadable", "no_model_state_dict", "shape_mismatch" }

\* The network with the weights of the checkpoint, in evaluation mode.
LoadedModel == "efficientnet_b0 with the checkpoint's weights"

\* _initialize_model that goes on with the freshly built network when the
\* checkpoint has no 'model_state_dict'.
initialize_model_lenient(checkpoint) ==
  CASE checkpoint = "missing"        -> [raised |-> "FileNotFoundError", model |-> None]
    [] checkpoint = "unreadable"     -> [raised |-> "UnpicklingError", model |-> None]
    [] checkpoint = "no_model_state_dict" ->
         [raised |-> "", model |-> "efficientnet_b0(weights=None)"]
    [] checkpoint = "shape_mismatch" -> [raised |-> "RuntimeError", model |-> None]
    [] OTHER                         -> [raised |-> "", model |-> LoadedModel]

\* _initialize_model: the model, or the exception it logs and raises again.
initialize_model(checkpoint) ==
  CASE checkpoint = "missing"        -> [raised |-> "FileNotFoundError", model |-> None]
    [] checkpoint = "unreadable"     -> [raised |-> "UnpicklingError", model |-> None]
    [] checkpoint = "no_model_state_dict" -> [raised |-> "KeyError", model |-> None]
    [] checkpoint = "shape_mismatch" -> [raised |-> "RuntimeError", model |-> None]
    [] OTHER                         -> [raised |-> "", model |-> LoadedModel]

\* ModelHandler(model_path): the handler, or the exception of
\* _initialize_model, which __init__ lets through.
ModelHandler(checkpoint) ==
  LET m == initialize_model(checkpoint)
  IN  IF m.raised # ""
      THEN [raised |-> m.raised, handler |-> None]
      ELSE [raised |-> "", handler |-> [class_names |-> class_names, model |-> m.model]]

\* init_model: sets self.model_handler, or logs and raises again; until it
\* has set it, self.model_handler is the None of __init__.
init_model(checkpoint) ==
  LET h == ModelHandler(checkpoint)
  IN  IF h.raised # ""
      THEN [raised |-> h.raised, model_handler |-> None]
      ELSE [raised |-> "", model_handler |-> h.handler]

\* No function has been called on its own.
NoCall == [op |-> "none"]

\* The state once DentalXRayAnalyzer.__init__ has returned and the window
\* is shown: the checkpoint was loaded.
Init ==
  /\ model_handler = init_model("ok").model_handler
  /\ call = NoCall
  /\ nworkers = 0
  /\ wpc = [w \in WorkerIds |-> "none"]
  /\ wpath = [w \in WorkerIds |-> ""]
  /\ wtodo = [w \in WorkerIds |-> <<>>]
  /\ wemitted = [w \in WorkerIds |-> [finished |-> 0, error |-> 0]]
  /\ wresult = [w \in WorkerIds |-> ""]
  /\ workers = <<>>
  /\ queue = <<>>
  /\ bar = create_progress_bar
  /\ grid = << Stretch >>
  /\ dialogs = 0
  /\ window = "open"
  /\ submits = 0
  /\ handled = [w \in WorkerIds |-> 0]
  /\ report = NoReport

\* The user can act on the main window: it is open and no modal box is up.
Interactive == window = "open" /\ dialogs = 0

\* The GUI thread delivers queued signals: it is in an event loop (the
\* application's, or the nested one of a modal box), not waiting in closeEvent.
Delivering == window = "open"

\* load_images with the files the dialog returned; _process_image for each:
\* a worker is constructed, connected, appended to workers and started.
\* (Constructing, connecting and starting a QThread do not raise: the except
\* branch of _process_image is not taken.)
load_images(file_names) ==
  /\ Interactive
  /\ IF file_names = <<>>
     THEN UNCHANGED vars
     ELSE LET n == Len(file_names) IN
          /\ submits < MaxSubmits
          /\ nworkers + n <= MaxWorkers
          /\ bar' = setValue(setMaximum(setVisible(bar, TRUE), n), 0)
          /\ nworkers' = nworkers + n
          /\ wpc' = [w \in WorkerIds |->
                       IF w \in (nworkers + 1)..(nworkers + n)
                       THEN "started" ELSE wpc[w]]
          /\ wpath' = [w \in WorkerIds |->
                         IF w \in (nworkers + 1)..(nworkers + n)
                         THEN file_names[w - nworkers] ELSE wpath[w]]
          /\ workers' = workers \o [i \in 1..n |-> nworkers + i]
          /\ submits' = submits + 1
          /\ report' = NoReport
          /\ UNCHANGED << model_handler, call >>
          /\ UNCHANGED << wtodo, wemitted, queue, grid, dialogs, window,
                          handled, wresult >>

\* A worker thread posts one signal to the GUI thread.
Post(w, signal) ==
  /\ queue' = Append(queue, signal @@ [sender |-> w])
  /\ wemitted' = [wemitted EXCEPT ![w][signal.sig] = @ + 1]

\* PredictionWorker.run up to and including its first emit.  readable is
\* whether the file can be opened and decoded now, forwardOk whether the
\* forward pass goes through.
WorkerRuns(w, readable, forwardOk) ==
  /\ wpc[w] = "started"
  /\ LET unreadable == IF readable THEN {} ELSE {wpath[w]}
         signals    == run(wpath[w], top_k, unreadable, forwardOk) IN
     /\ Post(w, Head(signals))
     /\ wtodo' = [wtodo EXCEPT ![w] = Tail(signals)]
  /\ wpc' = [wpc EXCEPT ![w] = "emitting"]
  /\ wresult' = [wresult EXCEPT ![w] = IF ~readable THEN "decode"
                                       ELSE IF forwardOk THEN "ok" ELSE "forward"]
  /\ report' = NoReport
  /\ UNCHANGED << model_handler, call >>
  /\ UNCHANGED << nworkers, wpath, workers, bar, grid, dialogs, window,
                  submits, handled >>

\* run's next emit.
WorkerEmits(w) ==
  /\ wpc[w] = "emitting"
  /\ wtodo[w] # <<>>
  /\ Post(w, Head(wtodo[w]))
  /\ wtodo' = [wtodo EXCEPT ![w] = Tail(@)]
  /\ report' = NoReport
  /\ UNCHANGED << model_handler, call >>
  /\ UNCHANGED << nworkers, wpc, wpath, workers, bar, grid, dialogs, window,
                  submits, handled, wresult >>

\* run returns: from now on isFinished() is true.
WorkerExits(w) ==
  /\ wpc[w] = "emitting"
  /\ wtodo[w] = <<>>
  /\ wpc' = [wpc EXCEPT ![w] = "finished"]
  /\ report' = NoReport
  /\ UNCHANGED << model_handler, call >>
  /\ UNCHANGED << nworkers, wpath, wtodo, wemitted, workers, queue, bar,
                  grid, dialogs, window, submits, handled, wresult >>

\* _handle_prediction_result, called for the finished signal at the head of
\* the queue.  (ImageCard does not raise on the results run emits, an
\* unreadable image gives an empty pixmap: the except branch is not taken.)
handle_prediction_result ==
  /\ Delivering
  /\ queue # <<>>
  /\ Head(queue).sig = "finished"
  /\ LET e    == Head(queue)
         card == ImageCard(e.image_path, e.predictions, e.sender,
                           Total(handled) + 1)
         b1   == setValue(bar, bar.value + 1)
     IN  /\ grid' = insertWidget(grid, card_index(grid), card)
         /\ IF b1.value = b1.maximum
            THEN /\ bar' = setVisible(b1, FALSE)
                 /\ workers' = cleanup_workers(workers, wpc)
            ELSE /\ bar' = b1
                 /\ UNCHANGED workers
         /\ handled' = [handled EXCEPT ![e.sender] = @ + 1]
  /\ queue' = Tail(queue)
  /\ report' = NoReport
  /\ UNCHANGED << model_handler, call >>
  /\ UNCHANGED << nworkers, wpc, wpath, wtodo, wemitted, dialogs, window,
                  submits, wresult >>

\* _handle_prediction_error up to QMessageBox.warning, called for the error
\* signal at the head of the queue: the box opens and the call waits in it.
handle_prediction_error ==
  /\ Delivering
  /\ queue # <<>>
  /\ Head(queue).sig = "error"
  /\ dialogs' = dialogs + 1
  /\ queue' = Tail(queue)
  /\ report' = NoReport
  /\ UNCHANGED << model_handler, call >>
  /\ UNCHANGED << nworkers, wpc, wpath, wtodo, wemitted, workers, bar, grid,
                  window, submits, handled, wresult >>

\* The progress bar after the last line of _handle_prediction_error.
error_progress(b) == setValue(b, b.value + 1)

\* The user closes a warning box: _handle_prediction_error goes on after
\* QMessageBox.warning and returns.
WarningClosed ==
  /\ window = "open"
  /\ dialogs > 0
  /\ dialogs' = dialogs - 1
  /\ bar' = error_progress(bar)
  /\ report' = NoReport
  /\ UNCHANGED << model_handler, call >>
  /\ UNCHANGED << nworkers, wpc, wpath, wtodo, wemitted, workers, queue,
                  grid, window, submits, handled, wresult >>

\* clear_images
clear_images ==
  /\ Interactive
  /\ grid' = clear_layout(grid)
  /\ report' = NoReport
  /\ UNCHANGED << model_handler, call >>
  /\ UNCHANGED << nworkers, wpc, wpath, wtodo, wemitted, workers, queue, bar,
                  dialogs, window, submits, handled, wresult >>

\* closeEvent starts: the GUI thread waits for every worker of the list.
CloseRequested ==
  /\ Interactive
  /\ window' = "closing"
  /\ report' = NoReport
  /\ UNCHANGED << model_handler, call >>
  /\ UNCHANGED << nworkers, wpc, wpath, wtodo, wemitted, workers, queue, bar,
                  grid, dialogs, submits, handled, wresult >>

\* closeEvent returns: every worker.wait() has returned.
closeEvent ==
  /\ window = "closing"
  /\ \A i \in 1..Len(workers) : wpc[workers[i]] = "finished"
  /\ window' = "closed"
  /\ report' = NoReport
  /\ UNCHANGED << model_handler, call >>
  /\ UNCHANGED << nworkers, wpc, wpath, wtodo, wemitted, workers, queue, bar,
                  grid, dialogs, submits, handled, wresult >>

\* The loop of _generate_pdf_report: the case data of the cards of the
\* layout, its last item left out.
RECURSIVE collect_cases(_, _)
collect_cases(layout, i) ==
  IF i > Len(layout) - 1 THEN <<>>
  ELSE (IF layout[i].kind = "card" THEN << prepare_case_data(layout[i]) >> ELSE <<>>)
       \o collect_cases(layout, i + 1)

\* _generate_pdf_report with an except branch that logs and returns.
generate_pdf_report_swallow(file_path, layout, unreadable, buildOk) ==
  LET cases == collect_cases(layout, 1) IN
  IF cases = <<>>
  THEN [called |-> FALSE, cases |-> cases, raised |-> "",
        written |-> FALSE, story |-> <<>>]
  ELSE [called |-> TRUE, cases |-> cases, raised |-> ""]
       @@ generate_report(file_path, cases, unreadable, buildOk)

\* _generate_pdf_report
generate_pdf_report(file_path, layout, unreadable, buildOk) ==
  LET cases == collect_cases(layout, 1) IN
  IF cases = <<>>
  THEN [called |-> FALSE, cases |-> cases, raised |-> "ValueError",
        written |-> FALSE, story |-> <<>>]
  ELSE [called |-> TRUE, cases |-> cases]
       @@ generate_report(file_path, cases, unreadable, buildOk)

\* The image paths of the cards of a layout.
card_paths(layout) ==
  { layout[i].image_path : i \in { j \in DOMAIN layout : layout[j].kind = "card" } }

\* What can happen to an export of a layout: unreadable, the files that
\* cannot be opened when the report is built, and buildOk, whether the write
\* goes through.  When the write fails nothing shows which images loaded.
ExportRuns(layout) ==
  { << unreadable, TRUE >> : unreadable \in SUBSET card_paths(layout) }
  \cup { << {}, FALSE >> }

\* export_report.  The save dialog returns a file name or is cancelled.
export_report ==
  /\ Interactive
  /\ \/ /\ Len(grid) <= 1
        /\ report' = [NoReport EXCEPT !.notice = "No images to export!"]
     \/ /\ Len(grid) > 1
        /\ report' = [NoReport EXCEPT !.notice = "cancelled"]
     \/ /\ Len(grid) > 1
        /\ \E x \in ExportRuns(grid) :
             LET unreadable == x[1]
                 r == generate_pdf_report("report.pdf", grid, unreadable, x[2])
             IN  report' = [notice |-> IF r.raised = ""
                                       THEN "Report exported successfully!"
                                       ELSE "Failed to export report",
                            called |-> r.called, cases |-> r.cases,
                            unreadable |-> unreadable,
                            raised |-> r.raised, written |-> r.written,
                            story |-> r.story]
  /\ UNCHANGED << model_handler, call >>
  /\ UNCHANGED << nworkers, wpc, wpath, wtodo, wemitted, workers, queue, bar,
                  grid, dialogs, window, submits, handled, wresult >>

\* The program without export_report.  export_report changes report only,
\* and every other step sets report to NoReport: the other variables take
\* the same values with and without it.
BatchNext ==
  \/ \E file_names \in Selections : load_images(file_names)
  \/ \E w \in WorkerIds, readable \in BOOLEAN, forwardOk \in BOOLEAN :
       WorkerRuns(w, readable, forwardOk)
  \/ \E w \in WorkerIds : WorkerEmits(w)
  \/ \E w \in WorkerIds : WorkerExits(w)
  \/ handle_prediction_result
  \/ handle_prediction_error
  \/ WarningClosed
  \/ clear_images
  \/ CloseRequested
  \/ closeEvent

BatchSpec == Init /\ [][BatchNext]_vars

\* The whole program.
Next ==
  \/ BatchNext
  \/ export_report

Spec == Init /\ [][Next]_vars

\* ---------------------------------------- the report generator on its own
\* ReportGenerator.generate_report applied to any list of at most MaxCases
\* cases, as a caller other than _generate_pdf_report may apply it.
MaxCases == 2

\* The cards an analysis can produce for a file.
CardPool ==
  UNION { { ImageCard(f, predict(Probabilities[f], top_k, TRUE), 0, 0),
            ImageCard(f, ErrorResult, 0, 0) } : f \in FileSet }

RECURSIVE Layouts(_)
Layouts(n) ==
  IF n = 0 THEN { << Stretch >> }
  ELSE Layouts(n - 1)
       \cup { << c >> \o l : c \in CardPool, l \in { x \in Layouts(n - 1) : Len(x) = n } }

GenInit ==
  /\ model_handler = init_model("ok").model_handler
  /\ call = NoCall
  /\ nworkers = 0
  /\ wpc = [w \in WorkerIds |-> "none"]
  /\ wpath = [w \in WorkerIds |-> ""]
  /\ wtodo = [w \in WorkerIds |-> <<>>]
  /\ wemitted = [w \in WorkerIds |-> [finished |-> 0, error |-> 0]]
  /\ wresult = [w \in WorkerIds |-> ""]
  /\ workers = <<>>
  /\ queue = <<>>
  /\ bar = create_progress_bar
  /\ grid \in Layouts(MaxCases)
  /\ dialogs = 0
  /\ window = "open"
  /\ submits = 0
  /\ handled = [w \in WorkerIds |-> 0]
  /\ report = NoReport

\* generate_report(file_path, cases) with the case data of the cards.
ReportGenerated(unreadable, buildOk) ==
  /\ report = NoReport
  /\ LET cases == collect_cases(grid, 1)
         r     == generate_report("report.pdf", cases, unreadable, buildOk)
     IN  report' = [notice |-> "", called |-> TRUE, cases |-> cases,
                    unreadable |-> unreadable, raised |-> r.raised,
                    written |-> r.written, story |-> r.story]
  /\ UNCHANGED << model_handler, call >>
  /\ UNCHANGED << nworkers, wpc, wpath, wtodo, wemitted, wresult, workers,
                  queue, bar, grid, dialogs, window, submits, handled >>

GenNext ==
  \E x \in ExportRuns(grid) : ReportGenerated(x[1], x[2])

GenSpec == GenInit /\ [][GenNext]_vars

\* ------------------------------------------------------------ properties
Dispatched == 1..nworkers

\* Every worker has run, every signal is delivered, every handler returned.
Quiet ==
  /\ \A w \in Dispatched : wpc[w] = "finished"
  /\ queue = <<>>
  /\ dialogs = 0

Cards == { i \in DOMAIN grid : grid[i].kind = "card" }

\* No card was taken out of the layout by clear_images.
NothingCleared == Cardinality(Cards) = Total(handled)

\* C1: after one submit of N images, once all workers have run and their
\* signals are handled, N finished signals were handled and the progress
\* value is N, whatever failed and in whatever order.
C1_SubmitCounts ==
  (submits = 1 /\ Quiet) =>
    (Total(handled) = nworkers /\ bar.value = nworkers)

C1_Witness ==
  /\ submits = 1 /\ Quiet /\ nworkers = 2
  /\ wresult[1] = "ok" /\ wresult[2] = "decode"
  /\ NothingCleared /\ grid[1].worker = 2
  /\ bar.value = 2

\* C2: a worker emits finished exactly once in its run: never more than
\* once, and once when the run is over, with or without an error signal.
C2_FinishedOnce ==
  \A w \in WorkerIds :
    /\ wemitted[w].finished <= 1
    /\ wpc[w] = "finished" => wemitted[w].finished = 1
    /\ (wpc[w] = "emitting" /\ wtodo[w] = <<>>) => wemitted[w].finished = 1

C2_Witness ==
  \E w, v \in Dispatched :
    /\ wpc[w] = "finished" /\ wemitted[w].error = 1 /\ wemitted[w].finished = 1
    /\ wpc[v] = "finished" /\ wemitted[v].error = 0 /\ wemitted[v].finished = 1

\* C3: the steps of _handle_prediction_error (the warning opens, the
\* warning is closed and the handler returns) leave the progress value as
\* it is.
C3_ErrorKeepsProgress ==
  [][dialogs' # dialogs => bar'.value = bar.value]_vars

\* C4: after a single submit the bar is hidden only when the finished
\* signal of every dispatched worker has been handled.
C4_SettledOnlyWhenAllHandled ==
  (submits = 1 /\ ~bar.visible) => \A w \in Dispatched : handled[w] >= 1

\* C5: one submit of N images of which F cannot be preprocessed (the
\* others are analysed), all workers run and all signals handled, no card
\* cleared: N finished and F error signals were emitted, the progress
\* value is N and the layout holds N - F cards of successful analyses.
Undecodable == { w \in Dispatched : wresult[w] = "decode" }

SuccessfulCards == { i \in Cards : grid[i].predictions # ErrorResult }

C5_CorruptImages ==
  (/\ submits = 1 /\ Quiet /\ NothingCleared
   /\ \A w \in Dispatched : wresult[w] # "forward") =>
    /\ Total([w \in WorkerIds |-> wemitted[w].finished]) = nworkers
    /\ Total([w \in WorkerIds |-> wemitted[w].error]) = Cardinality(Undecodable)
    /\ bar.value = nworkers
    /\ Cardinality(SuccessfulCards) = nworkers - Cardinality(Undecodable)

C5_Witness ==
  /\ submits = 1 /\ Quiet /\ NothingCleared /\ nworkers = 2
  /\ wresult[1] = "decode" /\ wresult[2] = "ok"
  /\ Cardinality(SuccessfulCards) = 1 /\ Cardinality(Cards) = 2

\* C6: the cases handed to the report generator hold no case of a failed
\* inference.
C6_NoFailedCaseExported ==
  report.called =>
    \A i \in DOMAIN report.cases : report.cases[i].diagnosis # "Error"

\* C7: an export with a case whose diagnosis is no key of the tables does
\* not raise for it.
KnownDiagnoses == { title(k) : k \in DOMAIN FINDINGS_MAP }

C7_UnknownLabelExports ==
  (/\ report.called
   /\ \E i \in DOMAIN report.cases : report.cases[i].diagnosis \notin KnownDiagnoses) =>
    report.raised # "KeyError"

\* C8: the report generator called with no case raises and writes no file.
C8_EmptyExportFails ==
  (report.called /\ report.cases = <<>>) =>
    (report.raised # "" /\ ~report.written)

\* The user-facing half of C8: export_report on a layout without cards shows
\* the warning, calls no generator and writes nothing (holds under Spec).
C8_UserExportOnEmptyLayout ==
  (report.notice \notin {"none", "cancelled"} /\ report.cases = <<>>) =>
    /\ report.notice = "No images to export!"
    /\ ~report.called /\ ~report.written

\* C9: when the write goes through and the image of exactly one case
\* cannot be loaded, the report is written, with one numbered section per
\* case, in order, the placeholder in the section of that case and the
\* image in every other.
CaseHeadings(story) ==
  SelectSeq(story, LAMBDA x : x[1] = "Paragraph" /\ x[3] = "CaseNumber")

ImageParts(story) ==
  SelectSeq(story, LAMBDA x :
    \/ x[1] = "Image"
    \/ x = Paragraph("Error: Could not load image", "Normal"))

C9_Sections ==
  /\ report.written
  /\ CaseHeadings(report.story) =
       [i \in DOMAIN report.cases |->
          Paragraph("Case #" \o ToString(i), "CaseNumber")]
  /\ ImageParts(report.story) =
       [i \in DOMAIN report.cases |->
          IF report.cases[i].image_path \in report.unreadable
          THEN Paragraph("Error: Could not load image", "Normal")
          ELSE Image(report.cases[i].image_path, 400)]

C9_ImageFailureKeepsExport ==
  (/\ report.called /\ report.raised # "OSError"
   /\ Cardinality({ i \in DOMAIN report.cases :
                     report.cases[i].image_path \in report.unreadable }) = 1) =>
    C9_Sections

\* C9 restricted to exports whose cases all have one of the 8 diagnoses:
\* there the image failure does not abort the export (holds under Spec).
C9_KnownDiagnosesOnly ==
  (\A i \in DOMAIN report.cases : report.cases[i].diagnosis \in KnownDiagnoses)
    => C9_ImageFailureKeepsExport

C9_KnownDiagnosesWitness ==
  /\ report.written /\ Len(report.cases) = 2
  /\ Cardinality({ i \in DOMAIN report.cases :
                     report.cases[i].image_path \in report.unreadable }) = 1

\* C10: the cards stand in the layout in the order in which their finished
\* signals were handled, before the stretch item.
C10_CompletionOrder ==
  /\ grid[Len(grid)] = Stretch
  /\ \A i, j \in Cards : i < j => grid[i].nth < grid[j].nth

C10_Witness ==
  /\ Cardinality(Cards) = 2
  /\ grid[1].worker = 2 /\ grid[2].worker = 1

\* Error signals of worker w still waiting in the queue.
QueuedErrors(w) ==
  Len(SelectSeq(queue, LAMBDA e : e.sig = "error" /\ e.sender = w))

\* The workers of which some signal, error or finished, has been handled.
Advanced ==
  { w \in Dispatched : handled[w] >= 1 \/ wemitted[w].error > QueuedErrors(w) }

\* C11: in a single submit the progress value advances by one for each
\* image, failing or not: it never exceeds the number of images of which a
\* signal has been handled.
C11_OneAdvancePerImage ==
  submits = 1 => bar.value <= Cardinality(Advanced)

\* The other half of C11: once everything is handled, every image that did
\* not fail has its card in the layout, whichever images failed (holds
\* under BatchSpec).
C11_OthersHandledWhenQuiet ==
  (submits = 1 /\ Quiet /\ NothingCleared) =>
    \A w \in Dispatched :
      wresult[w] = "ok" =>
        \E i \in Cards : grid[i].worker = w /\ grid[i].predictions # ErrorResult

\* C12: a finished signal that carries the ("Error", 0.0) result comes from
\* a worker that has emitted exactly one error signal, and a worker whose
\* run succeeded has emitted none.
C12_ErrorAccompaniesFallback ==
  /\ \A i \in DOMAIN queue :
       (queue[i].sig = "finished" /\ queue[i].predictions = ErrorResult) =>
         wemitted[queue[i].sender].error = 1
  /\ \A i \in Cards :
       grid[i].predictions = ErrorResult => wemitted[grid[i].worker].error = 1
  /\ \A w \in Dispatched : wresult[w] = "ok" => wemitted[w].error = 0

\* C12 for the failures run itself sees (preprocess_image returned None):
\* there the error signal is emitted (holds under BatchSpec).
C12_DecodeFailureSignalled ==
  \A w \in Dispatched :
    /\ (wresult[w] = "decode" /\ wemitted[w].finished = 1) => wemitted[w].error = 1
    /\ wresult[w] = "ok" => wemitted[w].error = 0

\* C13: clear_images leaves the layout with no card and with its stretch
\* item, whatever it held before (nothing included), and a completion
\* handled afterwards, like any other, puts its card last before the stretch.
C13_ClearKeepsStretch ==
  [][/\ clear_images => grid' = << Stretch >>
     /\ handle_prediction_result =>
          /\ Len(grid') = Len(grid) + 1
          /\ grid'[Len(grid')] = Stretch
          /\ grid'[Len(grid') - 1].kind = "card"
          /\ grid'[Len(grid') - 1].nth = Total(handled) + 1]_vars

\* A card was cleared and the completion handled after that has its card
\* as the only one, before the stretch.
C13_Witness ==
  /\ Total(handled) = 2
  /\ Len(grid) = 2 /\ grid[1].kind = "card" /\ grid[1].nth = 2
  /\ grid[2] = Stretch

\* ------------------------------------- the functions called on their own
\* The largest top_k asked of predict.
MaxTopK == 9

\* First labels a prediction list can have: the class names, the label of
\* the fallback result, and labels no table knows.
Labels ==
  { class_names[i] : i \in DOMAIN class_names } \cup { "Error", "caries", "" }

\* The prediction lists an ImageCard is built from: one pair, or none.
PredictionInputs == { << <<l, 500>> >> : l \in Labels } \cup { <<>> }

\* DiagnosisData.MANAGEMENT_MAP.get(primary_diagnosis, {}) of prepare_case_data.
get_management(card) == DictGet(MANAGEMENT_MAP, card.primary_diagnosis, <<>>)

FnInit ==
  /\ model_handler = init_model("ok").model_handler
  /\ call \in [op : {"none"}, predictions : PredictionInputs,
               image_path : FileSet, k : 0..MaxTopK]
  /\ nworkers = 0
  /\ wpc = [w \in WorkerIds |-> "none"]
  /\ wpath = [w \in WorkerIds |-> ""]
  /\ wtodo = [w \in WorkerIds |-> <<>>]
  /\ wemitted = [w \in WorkerIds |-> [finished |-> 0, error |-> 0]]
  /\ wresult = [w \in WorkerIds |-> ""]
  /\ workers = <<>>
  /\ queue = <<>>
  /\ bar = create_progress_bar
  /\ grid = << Stretch >>
  /\ dialogs = 0
  /\ window = "open"
  /\ submits = 0
  /\ handled = [w \in WorkerIds |-> 0]
  /\ report = NoReport

\* ImageCard(image_path, predictions) and the three lookups of its diagnosis.
KnowledgeBaseLookup ==
  /\ call.op = "none"
  /\ LET card == ImageCard(call.image_path, call.predictions, 0, 0)
     IN  call' = [op              |-> "lookup",
                  diagnosis       |-> card.primary_diagnosis,
                  findings        |-> get_findings_for_diagnosis(card),
                  recommendations |-> get_recommendations(card),
                  management      |-> get_management(card)] @@ call
  /\ UNCHANGED << nworkers, wpc, wpath, wtodo, wemitted, wresult, workers,
                  queue, bar, grid, dialogs, window, submits, handled,
                  report, model_handler >>

\* model_handler.predict(preprocess_image(image_path), k) of a readable file.
Predicted(forwardOk) ==
  /\ call.op = "none"
  /\ LET image_tensor == preprocess_image(call.image_path, {})
     IN  call' = [op        |-> "predict",
                  forwardOk |-> forwardOk,
                  result    |-> predict(image_tensor, call.k, forwardOk)] @@ call
  /\ UNCHANGED << nworkers, wpc, wpath, wtodo, wemitted, wresult, workers,
                  queue, bar, grid, dialogs, window, submits, handled,
                  report, model_handler >>

FnNext ==
  \/ KnowledgeBaseLookup
  \/ \E forwardOk \in BOOLEAN : Predicted(forwardOk)

FnSpec == FnInit /\ [][FnNext]_vars

\* The 8 labels as ImageCard keeps them.
EngineDiagnoses == { lower(class_names[i]) : i \in DOMAIN class_names }

\* C14: for each of the 8 lower-cased class names the lookups give findings
\* and recommendations that are not empty; for every other label findings,
\* recommendations and management are empty (and nothing is raised).
C14_KnowledgeBaseLookups ==
  call.op = "lookup" =>
    IF call.diagnosis \in EngineDiagnoses
    THEN call.findings # <<>> /\ call.recommendations # <<>>
    ELSE call.findings = <<>> /\ call.recommendations = <<>>
         /\ call.management = <<>>

C14_Witness ==
  /\ call.op = "lookup"
  /\ call.predictions = << <<"Nil control", 500>> >>
  /\ Len(call.findings) = 6 /\ Len(call.recommendations) >= 4

\* C15: once closeEvent has returned, no dispatched worker is still
\* running (started and not yet out of run), whatever was submitted,
\* completed and cleaned up before the close.
C15_ShutdownWaits ==
  window = "closed" => \A w \in Dispatched : wpc[w] = "finished"

\* Closed after two submits, with a cleanup that took a worker out of the
\* list and a worker that was still in the list at the close.
C15_Witness ==
  /\ window = "closed"
  /\ submits = 2 /\ nworkers = 2
  /\ Len(workers) = 1
  /\ queue # <<>>

\* ------------------------------------------- export_report on its own
\* export_report applied to any layout of at most MaxCases cards.
ExportNext == export_report

ExportSpec == GenInit /\ [][ExportNext]_vars

\* C16: the success box is shown only when report generation returned
\* without raising and wrote the file; when it raised, or wrote no file,
\* the error box is shown and not the success box.
C16_ExportFailureReported ==
  /\ report.notice = "Report exported successfully!" =>
       (report.called /\ report.raised = "" /\ report.written)
  /\ (report.raised # "" \/ (report.called /\ ~report.written)) =>
       report.notice = "Failed to export report"

\* The second of two cases makes the generator raise: nothing is written,
\* the error box is shown.
C16_Witness ==
  /\ report.notice = "Failed to export report"
  /\ report.called /\ report.raised = "KeyError" /\ ~report.written
  /\ Len(report.cases) = 2
  /\ report.cases[1].diagnosis \in KnownDiagnoses
  /\ report.cases[2].diagnosis = "Error"

\* ------------------------------------------------ the program from main()
\* main() has built the QApplication and calls DentalXRayAnalyzer():
\* __init__ has set workers = [] and model_handler = None.
StartInit ==
  /\ model_handler = None
  /\ call = NoCall
  /\ nworkers = 0
  /\ wpc = [w \in WorkerIds |-> "none"]
  /\ wpath = [w \in WorkerIds |-> ""]
  /\ wtodo = [w \in WorkerIds |-> <<>>]
  /\ wemitted = [w \in WorkerIds |-> [finished |-> 0, error |-> 0]]
  /\ wresult = [w \in WorkerIds |-> ""]
  /\ workers = <<>>
  /\ queue = <<>>
  /\ bar = create_progress_bar
  /\ grid = << Stretch >>
  /\ dialogs = 0
  /\ window = "starting"
  /\ submits = 0
  /\ handled = [w \in WorkerIds |-> 0]
  /\ report = NoReport

\* The try block of DentalXRayAnalyzer.__init__ with what is at model_path.
\* init_model returns: setup_ui builds the window (progress bar and layout
\* as in Init), main() shows it and enters the event loop.  init_model
\* raises: the "Initialization Error" box opens, nothing has been built or
\* shown, and __init__ waits in QMessageBox.critical.
DentalXRayAnalyzer_init(checkpoint) ==
  /\ window = "starting"
  /\ LET r == init_model(checkpoint) IN
     /\ model_handler' = r.model_handler
     /\ window' = IF r.raised = "" THEN "open" ELSE "init_error"
  /\ UNCHANGED << nworkers, wpc, wpath, wtodo, wemitted, wresult, workers,
                  queue, bar, grid, dialogs, submits, handled, report, call >>

\* The user closes the "Initialization Error" box: sys.exit(1).  SystemExit
\* is no Exception, the except branch of main() lets it through and the
\* process ends.
InitErrorClosed ==
  /\ window = "init_error"
  /\ window' = "exited"
  /\ UNCHANGED << nworkers, wpc, wpath, wtodo, wemitted, wresult, workers,
                  queue, bar, grid, dialogs, submits, handled, report, call,
                  model_handler >>

StartNext ==
  \/ \E checkpoint \in Checkpoints : DentalXRayAnalyzer_init(checkpoint)
  \/ InitErrorClosed
  \/ BatchNext

StartSpec == StartInit /\ [][StartNext]_vars

\* The handler exists and holds the network with the checkpoint's weights.
WorkingEngine(h) == h # None /\ h.model = LoadedModel

\* C17: the window is open for load_images, clear_images and export_report
\* only with a working engine; when loading the checkpoint fails there is
\* no engine, the error box is shown, and the process exits from that box
\* and from nowhere else.
C17_StartupFailureAborts ==
  [][/\ window' \in {"open", "closing", "closed"} => WorkingEngine(model_handler')
     /\ (window = "starting" /\ ~WorkingEngine(model_handler')) =>
          window' = "init_error"
     /\ window' \in {"init_error", "exited"} => model_handler' = None
     /\ window' = "exited" => window = "init_error"]_vars

C17_Witness ==
  /\ window = "exited"
  /\ model_handler = None
  /\ nworkers = 0 /\ grid = << Stretch >>

\* A prediction list of k pairs: labels among the class names, confidences
\* within 0..1 (thousandths), no confidence larger than the one before it.
TopKResult(r, k) ==
  /\ Len(r) = k
  /\ \A i \in DOMAIN r :
       /\ r[i][1] \in { class_names[c] : c \in DOMAIN class_names }
       /\ r[i][2] >= 0 /\ r[i][2] <= 1000
  /\ \A i, j \in DOMAIN r : i < j => r[i][2] >= r[j][2]

\* C18 as stated: for every readable image whose forward pass goes through
\* and every top_k asked for, predict returns top_k pairs, ordered by
\* non-increasing confidence, confidences in [0,1], labels among the 8
\* class names.
C18_TopKPairs ==
  (call.op = "predict" /\ call.forwardOk) => TopKResult(call.result, call.k)

\* C18 amended: the same for every top_k from 0 to the number of classes.
C18_TopKPairsUpToClasses ==
  (call.op = "predict" /\ call.forwardOk /\ call.k <= Len(class_names)) =>
    TopKResult(call.result, call.k)

\* All 8 classes asked for, of an image with two equal probabilities.
C18_Witness ==
  /\ call.op = "predict" /\ call.forwardOk
  /\ call.image_path = "b.png" /\ call.k = 8
  /\ Len(call.result) = 8
  /\ call.result[1] = <<"periapical abcess", 600>>
  /\ call.result[5] = <<"pericoronitis", 25>>
  /\ call.result[6] = <<"radicular cyst", 25>>

\* What the run of worker w gave for its own image.
ResultOf(w) ==
  IF wresult[w] = "ok"
  THEN predict(Probabilities[wpath[w]], top_k, TRUE)
  ELSE ErrorResult

\* C19: every card, and every finished signal on its way, pairs the image
\* path of the worker that sent it with the result of that worker's run,
\* in whatever order the workers complete.
C19_PathFromSignal ==
  /\ \A i \in Cards :
       /\ grid[i].image_path = wpath[grid[i].worker]
       /\ grid[i].predictions = ResultOf(grid[i].worker)
  /\ \A i \in DOMAIN queue :
       queue[i].sig = "finished" =>
         /\ queue[i].image_path = wpath[queue[i].sender]
         /\ queue[i].predictions = ResultOf(queue[i].sender)

\* Two files submitted together, the second completed first: each card
\* has its own file's path and result.
C19_Witness ==
  /\ submits = 1 /\ Len(grid) = 3
  /\ grid[1].worker = 2 /\ grid[1].image_path = "b.png"
  /\ grid[1].predictions[1][1] = "periapical abcess"
  /\ grid[2].worker = 1 /\ grid[2].image_path = "a.png"
  /\ grid[2].predictions[1][1] = "Nil control"

\* The workers of the latest load_images: its setMaximum(len(file_names))
\* is the last change of the maximum.
LatestSubmit ==
  IF submits = 0 THEN {} ELSE (nworkers - bar.maximum + 1)..nworkers

\* C20: after a second submit the bar is hidden (the batch marked settled)
\* only when the finished signal of every worker of that submit has been
\* handled.
C20_LatestSubmitCounted ==
  (submits >= 2 /\ ~bar.visible) => \A w \in LatestSubmit : handled[w] >= 1

\* C21: after a single submit, once the finished signal of every worker has
\* been handled (the handler of the last one ran the cleanup), the worker
\* list holds none of these workers.
C21_WorkersReclaimed ==
  (submits = 1 /\ \A w \in Dispatched : handled[w] >= 1) => workers = <<>>

\* C22: with a single submit, once a card has been handled and the layout
\* was emptied by clear_images, the layout stays without cards: a finished
\* signal of a worker dispatched before the clear adds none.
C22_ClearedStaysEmpty ==
  [][(submits = 1 /\ submits' = 1 /\ Total(handled) > 0 /\ Cards = {}) =>
       Cards' = {}]_vars

\* ------------------------------------------------- the program, scheduled
\* The batch controller with the scheduling the threads give: as long as
\* some worker thread has a step of run to take, one of them takes a step
\* (each has at most three), and the event loop of the GUI thread delivers
\* the signal at the head of its queue as long as it is running.  Nothing
\* is assumed of the user: the warning boxes may stay open, the window may
\* be closed.
WorkerStep ==
  \E w \in WorkerIds :
    \/ \E readable \in BOOLEAN, forwardOk \in BOOLEAN :
         WorkerRuns(w, readable, forwardOk)
    \/ WorkerEmits(w)
    \/ WorkerExits(w)

Deliver == handle_prediction_result \/ handle_prediction_error

Fairness == WF_vars(WorkerStep) /\ WF_vars(Deliver)

LiveSpec == Init /\ [][BatchNext]_vars /\ Fairness

\* C23: whenever the progress bar is shown (load_images with at least one
\* file shows it), it is hidden again later, unless the window is closed
\* first and the queued signals are no longer delivered.
C23_SubmitSettles ==
  bar.visible ~> (~bar.visible \/ window # "open")

\* Two overlapping submits, the first image undecodable, the second
\* submit's image completed first; everything is handled, the bar is hidden.
C23_Witness ==
  /\ submits = 2 /\ nworkers = 2 /\ Quiet /\ window = "open"
  /\ wresult[1] = "decode" /\ wresult[2] = "ok"
  /\ Len(grid) = 3 /\ grid[1].worker = 2 /\ grid[2].worker = 1
  /\ ~bar.visible
====
